---- MODULE Spec2Model ----
(***************************************************************************)
(* A model of sdk/storage/src/clients/storage_client.rs: the storage       *)
(* credentials, the StorageClient constructors, the endpoint builder, the  *)
(* SAS-token parser, finalize_request and the pipeline a StorageClient     *)
(* sends its requests through.                                             *)
(*                                                                         *)
(* Strings the code inspects character by character (SAS tokens, URLs,     *)
(* account names) are sequences of one-character strings.                  *)
(***************************************************************************)
EXTENDS Integers, Sequences, FiniteSets, TLC

\* ------------------------------------------------------------------ bounds
MaxTokenLen == 3
MaxAccountLen == 2
MaxBodyLen == 2
MaxClock == 3
MaxBudget == 3
MaxSegments == 2
MaxOps == 2

\* --------------------------------------------------------- program constants
AZURE_VERSION == <<"2","0","1","9","-","1","2","-","1","2">>

EMULATOR_ACCOUNT == <<"d","e","v","s","t","o","r","e","a","c","c","o","u","n","t","1">>

EMULATOR_ACCOUNT_KEY ==
  <<"E", "b", "y", "8", "v", "d", "M", "0", "2", "x", "N", "O", "c", "q", "F", "l", "q", "U",
    "w", "J", "P", "L", "l", "m", "E", "t", "l", "C", "D", "X", "J", "1", "O", "U", "z", "F",
    "T", "5", "0", "u", "S", "R", "Z", "6", "I", "F", "s", "u", "F", "q", "2", "U", "V", "E",
    "r", "C", "z", "4", "I", "6", "t", "q", "/", "K", "1", "S", "Z", "F", "P", "T", "O", "t",
    "r", "/", "K", "B", "H", "B", "e", "k", "s", "o", "G", "M", "G", "w", "=", "=">>

\* Option<T>: None is the empty sequence, Some(v) the sequence of v alone
None == <<>>
Some(v) == <<v>>

\* ----------------------------------------------------------- string helpers
SeqsUpTo(A, n) == UNION {[1..k -> A] : k \in 0..n}

\* index of the first element of s that is in set cs, Len(s)+1 when none is
IndexOfFirst(s, cs) ==
  LET hits == {i \in 1..Len(s) : s[i] \in cs}
  IN IF hits = {} THEN Len(s) + 1 ELSE CHOOSE i \in hits : \A j \in hits : i <= j

\* index of the last element of s that is in set cs, 0 when none is
IndexOfLast(s, cs) ==
  LET hits == {i \in 1..Len(s) : s[i] \in cs}
  IN IF hits = {} THEN 0 ELSE CHOOSE i \in hits : \A j \in hits : i >= j

RECURSIVE Flatten(_)
Flatten(ss) == IF ss = <<>> THEN <<>> ELSE Head(ss) \o Flatten(Tail(ss))

\* str::starts_with(char)
starts_with(s, c) == Len(s) > 0 /\ s[1] = c

LowerLetters ==
  <<"a", "b", "c", "d", "e", "f", "g", "h", "i", "j", "k", "l", "m", "n", "o", "p", "q", "r",
    "s", "t", "u", "v", "w", "x", "y", "z">>

UpperLetters ==
  <<"A", "B", "C", "D", "E", "F", "G", "H", "I", "J", "K", "L", "M", "N", "O", "P", "Q", "R",
    "S", "T", "U", "V", "W", "X", "Y", "Z">>

UpperToLower ==
  [c \in {UpperLetters[i] : i \in 1..26} |->
     LowerLetters[CHOOSE i \in 1..26 : UpperLetters[i] = c]]

to_ascii_lowercase(s) ==
  [i \in 1..Len(s) |-> IF s[i] \in DOMAIN UpperToLower THEN UpperToLower[s[i]] ELSE s[i]]

Digits == {"0", "1", "2", "3", "4", "5", "6", "7", "8", "9"}
Alpha == {LowerLetters[i] : i \in 1..26} \cup {UpperLetters[i] : i \in 1..26}

DigitChar == [d \in 0..9 |->
  CASE d = 0 -> "0" [] d = 1 -> "1" [] d = 2 -> "2" [] d = 3 -> "3" [] d = 4 -> "4"
    [] d = 5 -> "5" [] d = 6 -> "6" [] d = 7 -> "7" [] d = 8 -> "8" [] d = 9 -> "9"]

\* usize::to_string: the decimal digits of n, most significant first
RECURSIVE to_string(_)
to_string(n) == IF n < 10 THEN <<DigitChar[n]>>
                ELSE to_string(n \div 10) \o <<DigitChar[n % 10]>>

\* the number a string of decimal digits denotes
RECURSIVE DecimalValue(_)
DecimalValue(s) ==
  IF s = <<>> THEN 0
  ELSE 10 * DecimalValue(SubSeq(s, 1, Len(s) - 1))
       + (CHOOSE d \in 0..9 : DigitChar[d] = s[Len(s)])

\* ------------------------------------------------------------ url::Url
\* Url::parse trims C0 control characters and spaces at both ends
RECURSIVE TrimStart(_)
TrimStart(s) == IF s # <<>> /\ Head(s) = " " THEN TrimStart(Tail(s)) ELSE s

RECURSIVE TrimEnd(_)
TrimEnd(s) == IF s # <<>> /\ s[Len(s)] = " " THEN TrimEnd(SubSeq(s, 1, Len(s) - 1)) ELSE s

Trim(s) == TrimEnd(TrimStart(s))

\* percent-encoding of the characters of the path and query encode sets
\* that the model's alphabet contains: the space
RECURSIVE percent_encode(_)
percent_encode(s) ==
  IF s = <<>> THEN <<>>
  ELSE (IF Head(s) = " " THEN <<"%", "2", "0">> ELSE <<Head(s)>>) \o percent_encode(Tail(s))

\* form_urlencoded decoding: '+' is a space, %20 is a space
RECURSIVE form_decode(_)
form_decode(s) ==
  IF s = <<>> THEN <<>>
  ELSE IF Len(s) >= 3 /\ s[1] = "%" /\ s[2] = "2" /\ s[3] = "0"
       THEN <<" ">> \o form_decode(SubSeq(s, 4, Len(s)))
       ELSE (IF Head(s) = "+" THEN <<" ">> ELSE <<Head(s)>>) \o form_decode(Tail(s))

SpecialSchemes == {<<"h","t","t","p">>, <<"h","t","t","p","s">>}

DefaultPort(scheme) == IF scheme = <<"h","t","t","p">> THEN <<"8","0">> ELSE <<"4","4","3">>

SchemeChars == Alpha \cup Digits \cup {"+", "-", "."}

\* code points a domain may not contain (those of the model's alphabet)
ForbiddenHostChars == {" ", "%", "<", ">", "^", "|"}

ParseError(kind) == [ok |-> FALSE, err |-> kind]
Ok(v) == [ok |-> TRUE, value |-> v]

\* a special scheme is followed by any number of slashes and backslashes
RECURSIVE SkipSlashes(_)
SkipSlashes(s) == IF s # <<>> /\ Head(s) \in {"/", "\\"} THEN SkipSlashes(Tail(s)) ELSE s

\* query and fragment of the text that follows the path
QueryOf(rest) ==
  IF starts_with(rest, "?")
  THEN Some(percent_encode(SubSeq(rest, 2, IndexOfFirst(rest, {"#"}) - 1)))
  ELSE None

FragmentOf(rest) ==
  LET h == IndexOfFirst(rest, {"#"})
  IN IF h <= Len(rest) THEN Some(percent_encode(SubSeq(rest, h + 1, Len(rest)))) ELSE None

\* Url::parse of an absolute URL string: the scheme, then for http and
\* https the host and the port, the path, the query and the fragment. The
\* strings the model parses have no user information, no dot segments in
\* their paths and no characters outside ASCII.
Url_parse(input) ==
  LET s == Trim(input)
      colon == IndexOfFirst(s, {":"})
      hasScheme == /\ colon <= Len(s)
                   /\ colon > 1
                   /\ s[1] \in Alpha
                   /\ \A i \in 1..(colon - 1) : s[i] \in SchemeChars
  IN IF ~hasScheme THEN ParseError("RelativeUrlWithoutBase")
     ELSE
     LET scheme == to_ascii_lowercase(SubSeq(s, 1, colon - 1))
         rest == SubSeq(s, colon + 1, Len(s))
     IN IF scheme \in SpecialSchemes
        THEN
          LET afterSlashes == SkipSlashes(rest)
              authEnd == IndexOfFirst(afterSlashes, {"/", "\\", "?", "#"})
              authority == SubSeq(afterSlashes, 1, authEnd - 1)
              portColon == IndexOfLast(authority, {":"})
              rawHost == IF portColon = 0 THEN authority ELSE SubSeq(authority, 1, portColon - 1)
              rawPort == IF portColon = 0 THEN <<>> ELSE SubSeq(authority, portColon + 1, Len(authority))
              tail == SubSeq(afterSlashes, authEnd, Len(afterSlashes))
              pathEnd == IndexOfFirst(tail, {"?", "#"})
              rawPath == SubSeq(tail, 1, pathEnd - 1)
              afterPath == SubSeq(tail, pathEnd, Len(tail))
          IN IF rawHost = <<>> THEN ParseError("EmptyHost")
             ELSE IF \E i \in 1..Len(rawHost) : rawHost[i] \in ForbiddenHostChars
               THEN ParseError("InvalidDomainCharacter")
             ELSE IF \E i \in 1..Len(rawPort) : rawPort[i] \notin Digits
               THEN ParseError("InvalidPort")
             ELSE Ok([scheme |-> scheme,
                      cannot_be_a_base |-> FALSE,
                      host |-> Some(to_ascii_lowercase(rawHost)),
                      port |-> IF rawPort = <<>> \/ rawPort = DefaultPort(scheme)
                               THEN None ELSE Some(rawPort),
                      path |-> IF rawPath = <<>> THEN <<"/">> ELSE percent_encode(rawPath),
                      query |-> QueryOf(afterPath),
                      fragment |-> FragmentOf(afterPath)])
        ELSE
          \* a scheme that is not special and is not followed by a slash:
          \* the URL has an opaque path and cannot be a base
          LET pathEnd == IndexOfFirst(rest, {"?", "#"})
              afterPath == SubSeq(rest, pathEnd, Len(rest))
          IN Ok([scheme |-> scheme,
                 cannot_be_a_base |-> ~starts_with(rest, "/"),
                 host |-> None,
                 port |-> None,
                 path |-> SubSeq(rest, 1, pathEnd - 1),
                 query |-> QueryOf(afterPath),
                 fragment |-> FragmentOf(afterPath)])

\* Display for Url: the serialisation of a parsed URL
Url_to_string(u) ==
  u.scheme \o <<":">>
  \o (IF u.host # None THEN <<"/", "/">> \o u.host[1] ELSE <<>>)
  \o (IF u.port # None THEN <<":">> \o u.port[1] ELSE <<>>)
  \o u.path
  \o (IF u.query # None THEN <<"?">> \o u.query[1] ELSE <<>>)
  \o (IF u.fragment # None THEN <<"#">> \o u.fragment[1] ELSE <<>>)

\* Url::options().base_url(Some(base)).parse(input) for an input that has no
\* scheme: a reference that starts with '?' keeps the base and replaces its
\* query; any other reference is a path reference, whose query is what
\* follows its first '?'
Url_parse_with_base(base, input) ==
  LET s == Trim(input)
      q == IndexOfFirst(s, {"?", "#"})
      afterPath == SubSeq(s, q, Len(s))
  IN Ok([base EXCEPT !.path = IF q = 1 THEN base.path
                               ELSE <<"/">> \o percent_encode(SubSeq(s, 1, q - 1)),
                     !.query = QueryOf(afterPath),
                     !.fragment = FragmentOf(afterPath)])

\* split s at every occurrence of the separator
RECURSIVE Split(_, _)
Split(s, sep) ==
  LET i == IndexOfFirst(s, {sep})
  IN IF i > Len(s) THEN <<s>>
     ELSE <<SubSeq(s, 1, i - 1)>> \o Split(SubSeq(s, i + 1, Len(s)), sep)

\* Url::query_pairs: the '&'-separated pieces of the query that are not
\* empty, each split at its first '=', both halves form-decoded
query_pairs(u) ==
  IF u.query = None THEN <<>>
  ELSE LET pieces == SelectSeq(Split(u.query[1], "&"), LAMBDA p : p # <<>>)
       IN [i \in 1..Len(pieces) |->
             LET p == pieces[i]
                 e == IndexOfFirst(p, {"="})
             IN <<form_decode(SubSeq(p, 1, e - 1)), form_decode(SubSeq(p, e + 1, Len(p)))>>]

\* ------------------------------------------------------ StorageCredentials
Key(account, key) == [kind |-> "Key", account |-> account, key |-> key]
SASToken(params) == [kind |-> "SASToken", params |-> params]
BearerToken(token) == [kind |-> "BearerToken", token |-> token]
TokenCredential(credential) == [kind |-> "TokenCredential", credential |-> credential]
Anonymous == [kind |-> "Anonymous"]

Err(kind) == [ok |-> FALSE, err |-> kind]

SasBaseUrl == <<"h","t","t","p","s",":","/","/","b","l","o","b",".","c","o","r","e",".",
                "w","i","n","d","o","w","s",".","n","e","t">>

\* get_sas_token_parms without the test for a leading '?'
get_sas_token_parms_AlwaysPrefixed(sas_token) ==
  LET base_url == Url_parse(SasBaseUrl).value
      url == Url_parse_with_base(base_url, <<"?">> \o sas_token)
  IN IF ~url.ok THEN [ok |-> FALSE, err |-> "DataConversion"]
     ELSE Ok(query_pairs(url.value))

\* get_sas_token_parms: the query pairs of the token, parsed as a query
\* string against a fixed base, with a '?' put in front when it has none
get_sas_token_parms(sas_token) ==
  LET base_url == Url_parse(SasBaseUrl).value
      url == IF starts_with(sas_token, "?")
             THEN Url_parse_with_base(base_url, sas_token)
             ELSE Url_parse_with_base(base_url, <<"?">> \o sas_token)
  IN IF ~url.ok THEN Err("DataConversion")
     ELSE Ok(query_pairs(url.value))

\* StorageCredentials::sas_token
sas_token(token) ==
  LET params == get_sas_token_parms(token)
  IN IF ~params.ok THEN params ELSE Ok(SASToken(params.value))

\* Debug of a &str whose characters need no escape: the text in quotes
str_debug(s) == <<"\"">> \o s \o <<"\"">>

\* DebugStruct of one field: `Name { field: value }`, and in the alternate
\* form of {:#?} the field on a line of its own
debug_struct(name, field, value, alternate) ==
  IF alternate
  THEN name \o <<" ","{","\n"," "," "," "," ">> \o field \o <<":", " ">> \o value \o <<",","\n","}">>
  ELSE name \o <<" ", "{", " ">> \o field \o <<":", " ">> \o value \o <<" ", "}">>

\* the name of the variant of a credential, as the Debug impl writes it
VariantName(credentials) ==
  CASE credentials.kind = "Key" -> <<"K","e","y">>
    [] credentials.kind = "SASToken" -> <<"S","A","S","T","o","k","e","n">>
    [] credentials.kind = "BearerToken" -> <<"B","e","a","r","e","r","T","o","k","e","n">>
    [] credentials.kind = "TokenCredential" -> <<"T","o","k","e","n","C","r","e","d","e","n","t","i","a","l">>
    [] credentials.kind = "Anonymous" -> <<"A","n","o","n","y","m","o","u","s">>

\* the Debug a derive would give the Key variant: its fields are written
fmt_Derived(credentials, alternate) ==
  IF credentials.kind = "Key"
  THEN <<"K","e","y">> \o <<"(">> \o str_debug(credentials.account) \o <<",", " ">>
         \o str_debug(credentials.key) \o <<")">>
  ELSE debug_struct(<<"S","t","o","r","a","g","e","C","r","e","d","e","n","t","i","a","l","s">>, <<"c","r","e","d","e","n","t","i","a","l">>, str_debug(VariantName(credentials)), alternate)

\* Debug for StorageCredentials: a struct of one field, the name of the
\* variant
fmt(credentials, alternate) ==
  debug_struct(<<"S","t","o","r","a","g","e","C","r","e","d","e","n","t","i","a","l","s">>, <<"c","r","e","d","e","n","t","i","a","l">>, str_debug(VariantName(credentials)), alternate)

\* ------------------------------------------------------- get_endpoint_uri
EndpointSuffix == <<".","c","o","r","e",".","w","i","n","d","o","w","s",".","n","e","t">>

\* format!("https://{}.{}.core.windows.net", account, endpoint_type)
EndpointString(account, endpoint_type) ==
  <<"h","t","t","p","s",":","/","/">> \o account \o <<".">> \o endpoint_type \o EndpointSuffix

\* get_endpoint_uri with an override that does not parse replaced by the
\* synthesized endpoint
get_endpoint_uri_Fallback(url, account, endpoint_type) ==
  LET synthesized == Url_parse(EndpointString(account, endpoint_type))
  IN IF url # None /\ Url_parse(url[1]).ok THEN Url_parse(url[1])
     ELSE IF synthesized.ok THEN synthesized ELSE [ok |-> FALSE, err |-> "DataConversion"]

\* get_endpoint_uri: the override when there is one, parsed; else the
\* endpoint of the account and the service, parsed
get_endpoint_uri(url, account, endpoint_type) ==
  IF url # None
  THEN Url_parse(url[1])
  ELSE LET synthesized == Url_parse(EndpointString(account, endpoint_type))
       IN IF synthesized.ok THEN synthesized ELSE Err("DataConversion")

\* -------------------------------------------------------------- pipeline
\* ClientOptions: the retry options (None: the default ones), the timeout
\* policy and the transport
ClientOptions_default == [retry |-> None, timeout |-> "default", transport |-> "default"]

\* ClientOptions::new(transport)
ClientOptions_new(transport) == [ClientOptions_default EXCEPT !.transport = transport]

\* AuthorizationPolicy::new: the policy holds the credential
AuthorizationPolicy_new(credentials) ==
  [policy |-> "AuthorizationPolicy", credentials |-> Some(credentials), timeout |-> None]

\* options.timeout.clone() as a policy
TimeoutPolicy(timeout) ==
  [policy |-> "TimeoutPolicy", credentials |-> None, timeout |-> Some(timeout)]

\* Pipeline::new: the per-call policies, then the per-retry policies, then
\* the transport of the options
Pipeline_new(options, per_call_policies, per_retry_policies) ==
  [options |-> options,
   per_call_policies |-> per_call_policies,
   per_retry_policies |-> per_retry_policies,
   transport |-> options.transport]

\* new_pipeline_from_options without the authorization policy
new_pipeline_from_options_NoAuth(options, credentials) ==
  Pipeline_new(options, <<>>, <<TimeoutPolicy(options.timeout)>>)

\* new_pipeline_from_options with the authorization policy put first
new_pipeline_from_options_AuthFirst(options, credentials) ==
  Pipeline_new(options, <<>>,
               <<AuthorizationPolicy_new(credentials), TimeoutPolicy(options.timeout)>>)

\* new_pipeline_from_options whose authorization policy gets no credential
\* to sign with
new_pipeline_from_options_Unsigned(options, credentials) ==
  Pipeline_new(options, <<>>,
               <<TimeoutPolicy(options.timeout), AuthorizationPolicy_new(Anonymous)>>)

\* new_pipeline_from_options: no per-call policy; the per-retry policies
\* are the timeout policy of the options and then the authorization policy
new_pipeline_from_options(options, credentials) ==
  LET auth_policy == AuthorizationPolicy_new(credentials)
      per_retry_policies == <<TimeoutPolicy(options.timeout), auth_policy>>
  IN Pipeline_new(options, <<>>, per_retry_policies)

\* ---------------------------------------------------------- StorageClient
Panic == [ok |-> FALSE, err |-> "panic"]

SecondarySuffix == <<"-","s","e","c","o","n","d","a","r","y">>

StorageClient(storage_credentials, blob, table, queue, queue_secondary, filesystem, account, pipeline) ==
  [storage_credentials |-> storage_credentials,
   blob_storage_url |-> blob,
   table_storage_url |-> table,
   queue_storage_url |-> queue,
   queue_storage_secondary_url |-> queue_secondary,
   filesystem_url |-> filesystem,
   account |-> account,
   pipeline |-> pipeline]

\* the first error of a sequence of results, in their order of evaluation
FirstError(results) ==
  results[CHOOSE i \in 1..Len(results) :
            ~results[i].ok /\ \A j \in 1..(i - 1) : results[j].ok]

AllOk(results) == \A i \in 1..Len(results) : results[i].ok

\* the struct expression of the constructors that derive the five
\* endpoints from the account and unwrap them
WithAccountEndpoints(account, storage_credentials, pipeline) ==
  LET blob == get_endpoint_uri(None, account, <<"b","l","o","b">>)
      table == get_endpoint_uri(None, account, <<"t","a","b","l","e">>)
      queue == get_endpoint_uri(None, account, <<"q","u","e","u","e">>)
      secondary == get_endpoint_uri(None, account \o SecondarySuffix, <<"q","u","e","u","e">>)
      filesystem == get_endpoint_uri(None, account, <<"d","f","s">>)
  IN IF ~AllOk(<<blob, table, queue, secondary, filesystem>>) THEN Panic
     ELSE Ok(StorageClient(storage_credentials, blob.value, table.value, queue.value,
                           secondary.value, filesystem.value, account, pipeline))

new_access_key(account, key) ==
  LET storage_credentials == Key(account, key)
      pipeline == new_pipeline_from_options(ClientOptions_default, storage_credentials)
  IN WithAccountEndpoints(account, storage_credentials, pipeline)

new_emulator_with_account(blob_storage_url, table_storage_url, queue_storage_url, filesystem_url, account, key) ==
  LET storage_credentials == Key(account, key)
      pipeline == new_pipeline_from_options(ClientOptions_default, storage_credentials)
      blob == Url_parse(Url_to_string(blob_storage_url) \o account)
      table == Url_parse(Url_to_string(table_storage_url) \o account)
      queue == Url_parse(Url_to_string(queue_storage_url) \o account)
      filesystem == Url_parse(Url_to_string(filesystem_url) \o account)
  IN IF ~AllOk(<<blob, table, queue, filesystem>>) THEN Panic
     ELSE Ok(StorageClient(storage_credentials, blob.value, table.value, queue.value,
                           queue.value, filesystem.value, account, pipeline))

new_emulator(blob_storage_url, table_storage_url, queue_storage_url, filesystem_url) ==
  new_emulator_with_account(blob_storage_url, table_storage_url, queue_storage_url,
                            filesystem_url, EMULATOR_ACCOUNT, EMULATOR_ACCOUNT_KEY)

new_emulator_default ==
  LET blob_storage_url == Url_parse(<<"h","t","t","p",":","/","/","1","2","7",".","0",".","0",".","1",":","1","0","0","0","0">>)
      queue_storage_url == Url_parse(<<"h","t","t","p",":","/","/","1","2","7",".","0",".","0",".","1",":","1","0","0","0","1">>)
      table_storage_url == Url_parse(<<"h","t","t","p",":","/","/","1","2","7",".","0",".","0",".","1",":","1","0","0","0","2">>)
      filesystem_url == Url_parse(<<"h","t","t","p",":","/","/","1","2","7",".","0",".","0",".","1",":","1","0","0","0","4">>)
  IN IF ~AllOk(<<blob_storage_url, queue_storage_url, table_storage_url, filesystem_url>>)
     THEN Panic
     ELSE new_emulator(blob_storage_url.value, table_storage_url.value,
                       queue_storage_url.value, filesystem_url.value)

\* new_sas_token with the secondary queue endpoint derived from the bare
\* account
new_sas_token_NoSuffix(account, token) ==
  LET storage_credentials == sas_token(token)
      blob == get_endpoint_uri(None, account, <<"b","l","o","b">>)
      table == get_endpoint_uri(None, account, <<"t","a","b","l","e">>)
      queue == get_endpoint_uri(None, account, <<"q","u","e","u","e">>)
      filesystem == get_endpoint_uri(None, account, <<"d","f","s">>)
      results == <<storage_credentials, blob, table, queue, queue, filesystem>>
  IN IF ~AllOk(results) THEN FirstError(results)
     ELSE Ok(StorageClient(storage_credentials.value, blob.value, table.value, queue.value,
                           queue.value, filesystem.value, account,
                           new_pipeline_from_options(ClientOptions_default,
                                                     storage_credentials.value)))

new_sas_token(account, token) ==
  LET storage_credentials == sas_token(token)
      blob == get_endpoint_uri(None, account, <<"b","l","o","b">>)
      table == get_endpoint_uri(None, account, <<"t","a","b","l","e">>)
      queue == get_endpoint_uri(None, account, <<"q","u","e","u","e">>)
      secondary == get_endpoint_uri(None, account \o SecondarySuffix, <<"q","u","e","u","e">>)
      filesystem == get_endpoint_uri(None, account, <<"d","f","s">>)
      results == <<storage_credentials, blob, table, queue, secondary, filesystem>>
  IN IF ~AllOk(results) THEN FirstError(results)
     ELSE Ok(StorageClient(storage_credentials.value, blob.value, table.value, queue.value,
                           secondary.value, filesystem.value, account,
                           new_pipeline_from_options(ClientOptions_default,
                                                     storage_credentials.value)))

new_bearer_token(account, bearer_token) ==
  LET storage_credentials == BearerToken(bearer_token)
      pipeline == new_pipeline_from_options(ClientOptions_default, storage_credentials)
  IN WithAccountEndpoints(account, storage_credentials, pipeline)

new_token_credential(account, token_credential) ==
  LET storage_credentials == TokenCredential(token_credential)
      pipeline == new_pipeline_from_options(ClientOptions_default, storage_credentials)
  IN WithAccountEndpoints(account, storage_credentials, pipeline)

new_anonymous(account) ==
  LET storage_credentials == Anonymous
      pipeline == new_pipeline_from_options(ClientOptions_default, storage_credentials)
  IN WithAccountEndpoints(account, storage_credentials, pipeline)

\* new_mock whose pipeline is built for an anonymous credential
new_mock_OtherPipeline(account, storage_credentials, transport_policy) ==
  LET options == ClientOptions_new(transport_policy)
      pipeline == new_pipeline_from_options(options, Anonymous)
  IN WithAccountEndpoints(account, storage_credentials, pipeline)

\* new_mock: a client of the account with the credential, its pipeline
\* built of the options with the transport and the same credential
new_mock(account, storage_credentials, transport_policy) ==
  LET options == ClientOptions_new(transport_policy)
      pipeline == new_pipeline_from_options(options, storage_credentials)
  IN WithAccountEndpoints(account, storage_credentials, pipeline)

\* the struct expression of the arms of new_connection_string: every
\* endpoint is its override or derived from the account, errors returned
WithConnectionStringEndpoints(cs, storage_credentials) ==
  LET account == cs.account_name[1]
      blob == get_endpoint_uri(cs.blob_endpoint, account, <<"b","l","o","b">>)
      table == get_endpoint_uri(cs.table_endpoint, account, <<"t","a","b","l","e">>)
      queue == get_endpoint_uri(cs.queue_endpoint, account, <<"q","u","e","u","e">>)
      secondary == get_endpoint_uri(cs.queue_endpoint, account \o SecondarySuffix,
                                    <<"q","u","e","u","e">>)
      filesystem == get_endpoint_uri(cs.file_endpoint, account, <<"d","f","s">>)
      results == <<storage_credentials, blob, table, queue, secondary, filesystem>>
  IN IF ~AllOk(results) THEN FirstError(results)
     ELSE Ok(StorageClient(storage_credentials.value, blob.value, table.value, queue.value,
                           secondary.value, filesystem.value, account,
                           new_pipeline_from_options(ClientOptions_default,
                                                     storage_credentials.value)))

\* new_connection_string with the arm of the account key tried before the
\* arms of the SAS
new_connection_string_KeyFirst(parsed) ==
  IF ~parsed.ok THEN parsed
  ELSE LET cs == parsed.value
       IN IF cs.account_name # None /\ cs.account_key # None
          THEN WithConnectionStringEndpoints(cs, Ok(Key(cs.account_name[1], cs.account_key[1])))
          ELSE IF cs.account_name # None /\ cs.sas # None
          THEN WithConnectionStringEndpoints(cs, sas_token(cs.sas[1]))
          ELSE [ok |-> FALSE, err |-> "Other"]

\* new_connection_string that builds an anonymous client when an account
\* comes with neither a key nor a SAS
new_connection_string_AnonymousArm(parsed) ==
  IF ~parsed.ok THEN parsed
  ELSE LET cs == parsed.value
       IN IF cs.account_name # None /\ cs.sas # None
          THEN WithConnectionStringEndpoints(cs, sas_token(cs.sas[1]))
          ELSE IF cs.account_name # None /\ cs.account_key # None
          THEN WithConnectionStringEndpoints(cs, Ok(Key(cs.account_name[1], cs.account_key[1])))
          ELSE IF cs.account_name # None
          THEN WithConnectionStringEndpoints(cs, Ok(Anonymous))
          ELSE Err("Other")

\* new_connection_string, from what ConnectionString::new returned: the
\* arms are tried in order, (account, key, SAS), (account, SAS),
\* (account, key), anything else
new_connection_string(parsed) ==
  IF ~parsed.ok THEN parsed
  ELSE LET cs == parsed.value
       IN IF cs.account_name # None /\ cs.account_key # None /\ cs.sas # None
          THEN WithConnectionStringEndpoints(cs, sas_token(cs.sas[1]))
          ELSE IF cs.account_name # None /\ cs.sas # None
          THEN WithConnectionStringEndpoints(cs, sas_token(cs.sas[1]))
          ELSE IF cs.account_name # None /\ cs.account_key # None
          THEN WithConnectionStringEndpoints(cs, Ok(Key(cs.account_name[1], cs.account_key[1])))
          ELSE Err("Other")

\* AccountSharedAccessSignature::new: the signature's fields
AccountSharedAccessSignature_new(account, key, resource, resource_type, expiry, permissions) ==
  [account |-> account, key |-> key, resource |-> resource,
   resource_type |-> resource_type, expiry |-> expiry, permissions |-> permissions]

\* shared_access_signature that also signs with a bearer token
shared_access_signature_AnySecret(storage_credentials, resource, resource_type, expiry, permissions) ==
  IF storage_credentials.kind = "Key"
  THEN Ok(AccountSharedAccessSignature_new(storage_credentials.account, storage_credentials.key,
                                           resource, resource_type, expiry, permissions))
  ELSE IF storage_credentials.kind = "BearerToken"
  THEN Ok(AccountSharedAccessSignature_new(<<>>, storage_credentials.token,
                                           resource, resource_type, expiry, permissions))
  ELSE [ok |-> FALSE, err |-> "Credential"]

\* shared_access_signature: a signature from a Key credential, an error of
\* kind Credential from any other
shared_access_signature(storage_credentials, resource, resource_type, expiry, permissions) ==
  IF storage_credentials.kind = "Key"
  THEN Ok(AccountSharedAccessSignature_new(storage_credentials.account, storage_credentials.key,
                                           resource, resource_type, expiry, permissions))
  ELSE Err("Credential")

\* a segment as PathSegmentsMut writes it: '/' and '%' are encoded, so that
\* the text stays one segment
RECURSIVE encode_segment(_)
encode_segment(s) ==
  IF s = <<>> THEN <<>>
  ELSE (CASE Head(s) = "/" -> <<"%", "2", "F">>
          [] Head(s) = "%" -> <<"%", "2", "5">>
          [] Head(s) = " " -> <<"%", "2", "0">>
          [] OTHER -> <<Head(s)>>) \o encode_segment(Tail(s))

DotSegments == {<<".">>, <<".", ".">>}

\* PathSegmentsMut::extend: "." and ".." are ignored; a segment follows a
\* '/', which is written unless the path is only the '/' of the root
RECURSIVE path_segments_extend(_, _)
path_segments_extend(path, new_segments) ==
  IF new_segments = <<>> THEN path
  ELSE IF Head(new_segments) \in DotSegments
       THEN path_segments_extend(path, Tail(new_segments))
       ELSE path_segments_extend(
              (IF Len(path) > 1 \/ Len(path) = 0 THEN path \o <<"/">> ELSE path)
                \o encode_segment(Head(new_segments)),
              Tail(new_segments))

\* url_with_segments that writes the segments after the opaque path of a
\* url that cannot be a base
url_with_segments_Opaque(url, new_segments) ==
  Ok([url EXCEPT !.path = path_segments_extend(url.path, new_segments)])

\* url_with_segments: the url with the segments appended to its path, an
\* error of kind DataConversion when the url cannot be a base
url_with_segments(url, new_segments) ==
  IF url.cannot_be_a_base
  THEN Err("DataConversion")
  ELSE Ok([url EXCEPT !.path = path_segments_extend(url.path, new_segments)])

\* blob_url_with_segments: the segments appended to the blob endpoint
blob_url_with_segments(self, new_segments) ==
  url_with_segments(self.blob_storage_url, new_segments)

\* queue_url_with_segments: the segments appended to the queue endpoint
queue_url_with_segments(self, new_segments) ==
  url_with_segments(self.queue_storage_url, new_segments)

\* ------------------------------------------------------------------- state
VARIABLES
  args,      \* the arguments of the calls a behaviour makes to a free function
  rets,      \* the values those calls returned, by call
  client,    \* the StorageClient, the outcome of its constructor
  ctor,      \* the constructor call that made the client
  pc,        \* where the send in progress is
  context,   \* the Context of the send in progress
  request,   \* the Request of the send in progress
  snapshot,  \* the request as it was when the send in progress began
  idx,       \* the position in the policy list of the send in progress
  attempt,   \* the number of the current attempt of the send in progress
  budget,    \* the retry budget of the send in progress
  trace,     \* what the pipeline has executed in the send in progress
  now,       \* the clock
  outcome    \* what the last send returned

vars == <<args, rets, client, ctor, pc, context, request, snapshot, idx, attempt, budget,
          trace, now, outcome>>

clientVars == <<client, ctor>>
sendVars == <<pc, context, request, snapshot, idx, attempt, budget, trace, outcome>>

NoCalls == <<>>
NoClient == [ok |-> FALSE, err |-> "NotConstructed"]
NoCtor == [fn |-> "none"]

IdleSend ==
  /\ pc = "idle"
  /\ context = <<>>
  /\ request = None
  /\ snapshot = None
  /\ idx = 0
  /\ attempt = 0
  /\ budget = 0
  /\ trace = <<>>
  /\ outcome = None

\* ------------------------------------------------------- finalize_request
CONTENT_LENGTH == "content-length"
MS_DATE == "x-ms-date"
VERSION == "x-ms-version"

TwoDigits(n) == <<DigitChar[n \div 10], DigitChar[n % 10]>>

\* date::to_rfc1123 of the instant t seconds after the epoch, t < 60
to_rfc1123(t) ==
  <<"T","h","u",","," ","0","1"," ","J","a","n"," ","1","9","7","0"," ","0","0",":","0","0",":">>
    \o TwoDigits(t) \o <<" ","G","M","T">>

\* Request::insert_header: the last value inserted under a name stays
insert_header(headers, k, v) == [h \in DOMAIN headers \cup {k} |-> IF h = k THEN v ELSE headers[h]]

EMPTY_BODY == <<>>

\* finalize_request with the caller's headers inserted after the three
\* headers of the function
finalize_request_CallerLast(url, method, headers, request_body) ==
  LET time == to_rfc1123(now)
      length == IF request_body # None THEN to_string(Len(request_body[1])) ELSE <<"0">>
      own == insert_header(insert_header(insert_header(<<>>, CONTENT_LENGTH, length),
                                         MS_DATE, time), VERSION, AZURE_VERSION)
  IN Ok([url |-> url, method |-> method,
         headers |-> [h \in DOMAIN own \cup DOMAIN headers |->
                        IF h \in DOMAIN headers THEN headers[h] ELSE own[h]],
         body |-> IF request_body # None THEN request_body[1] ELSE EMPTY_BODY])

\* finalize_request: a request of the url and the method with the caller's
\* headers, then content-length, the date of now and the version, and the
\* body
finalize_request(url, method, headers, request_body) ==
  LET dt == now
      time == to_rfc1123(dt)
      with_caller == headers
      with_length == IF request_body # None
                     THEN insert_header(with_caller, CONTENT_LENGTH, to_string(Len(request_body[1])))
                     ELSE insert_header(with_caller, CONTENT_LENGTH, <<"0">>)
      with_date == insert_header(with_length, MS_DATE, time)
      with_version == insert_header(with_date, VERSION, AZURE_VERSION)
  IN Ok([url |-> url, method |-> method, headers |-> with_version,
         body |-> IF request_body # None THEN request_body[1] ELSE EMPTY_BODY])

\* ------------------------------------------------------------ Pipeline::send
AUTHORIZATION == "authorization"

\* Context::insert: the value of the type replaces the one there was
Context_insert(ctx, type, value) ==
  [t \in DOMAIN ctx \cup {type} |-> IF t = type THEN value ELSE ctx[t]]

\* the keyed hash of a message, encoded: a text that determines both
Hmac(key, message) == <<"{">> \o key \o <<"|">> \o message \o <<"}">>

SignedHeaderNames == <<CONTENT_LENGTH, MS_DATE, "x-ms-meta", VERSION>>

\* the canonical string of a request: the method, the headers that are
\* signed in the order of their names, the account and the path and query
string_to_sign(req, account) ==
  LET line(i) == IF SignedHeaderNames[i] \in DOMAIN req.headers
                 THEN req.headers[SignedHeaderNames[i]] \o <<"\n">> ELSE <<"\n">>
  IN req.method \o <<"\n">>
     \o Flatten([i \in 1..Len(SignedHeaderNames) |-> line(i)])
     \o <<"/">> \o account \o req.url.path
     \o (IF req.url.query # None THEN <<"?">> \o req.url.query[1] ELSE <<>>)

\* form_urlencoded serialisation of pairs: a space becomes '+'
form_encode(s) == [i \in 1..Len(s) |-> IF s[i] = " " THEN "+" ELSE s[i]]

RECURSIVE serialize_pairs(_)
serialize_pairs(pairs) ==
  IF pairs = <<>> THEN <<>>
  ELSE form_encode(Head(pairs)[1]) \o <<"=">> \o form_encode(Head(pairs)[2])
       \o (IF Len(pairs) > 1 THEN <<"&">> ELSE <<>>) \o serialize_pairs(Tail(pairs))

\* the pairs appended to the query of the url
append_pairs(url, pairs) ==
  IF pairs = <<>> THEN url
  ELSE [url EXCEPT !.query =
          IF url.query = None \/ url.query = Some(<<>>)
          THEN Some(serialize_pairs(pairs))
          ELSE Some(url.query[1] \o <<"&">> \o serialize_pairs(pairs))]

\* the token a token provider hands out
get_token(provider) == IF provider = "provider1" THEN <<"p", "1">> ELSE <<"p", "2">>

BearerPrefix == <<"B","e","a","r","e","r"," ">>
SharedKeyPrefix == <<"S","h","a","r","e","d","K","e","y"," ">>

\* the authorization policy on a request, by the kind of its credential
authorize(credentials, req) ==
  CASE credentials.kind = "Key" ->
         [req EXCEPT !.headers = insert_header(req.headers, AUTHORIZATION,
            SharedKeyPrefix \o credentials.account \o <<":">>
              \o Hmac(credentials.key, string_to_sign(req, credentials.account)))]
    [] credentials.kind = "SASToken" ->
         [req EXCEPT !.url = append_pairs(req.url, credentials.params)]
    [] credentials.kind = "BearerToken" ->
         [req EXCEPT !.headers = insert_header(req.headers, AUTHORIZATION,
                                               BearerPrefix \o credentials.token)]
    [] credentials.kind = "TokenCredential" ->
         [req EXCEPT !.headers = insert_header(req.headers, AUTHORIZATION,
                                               BearerPrefix \o get_token(credentials.credential))]
    [] credentials.kind = "Anonymous" -> req

\* a policy of the pipeline on a request
apply_policy(policy, req) ==
  IF policy.policy = "AuthorizationPolicy" THEN authorize(policy.credentials[1], req) ELSE req

\* the request of a new attempt, with the date of the send before kept
restore_request_StaleDate(saved, t) == saved

\* the request of a new attempt: the request as it was before the send
\* signed it, with the date of the attempt
restore_request(saved, t) ==
  [saved EXCEPT !.headers = insert_header(saved.headers, MS_DATE, to_rfc1123(t))]

RetryableResults == {"transient", "timeout"}
TransportResults == {"success", "fatal"} \cup RetryableResults

\* should_retry that allows one attempt more than the budget
should_retry_OneMore(result, n, b) == result \in RetryableResults /\ n <= b

\* a failed attempt is retried when the failure is transient, or a timeout,
\* and the budget has an attempt left
should_retry(result, n, b) == result \in RetryableResults /\ n < b

\* what send returns when the attempt is not retried
send_result(result, n) ==
  CASE result = "success" -> Ok([status |-> "ok", attempt |-> n])
    [] result = "fatal" -> Err("AuthenticationFailure")
    [] OTHER -> Err("RetryBudgetExhausted")

\* --------------------------------------------- StorageCredentials::sas_token
TokenAlphabet == {"?", "&", "=", "#", "a", "1", " ", "+"}

SampleToken == <<"a", "=", "1", "&", "b", "=", "2">>

Tokens == SeqsUpTo(TokenAlphabet, MaxTokenLen) \cup {SampleToken}

InitSas ==
  /\ args \in [token : Tokens]
  /\ rets = NoCalls
  /\ client = NoClient
  /\ ctor = NoCtor
  /\ now = 0
  /\ IdleSend

\* a call of StorageCredentials::sas_token, with the token as it is or with
\* a '?' in front
SasToken(form) ==
  /\ form \notin DOMAIN rets
  /\ rets' = rets @@ (form :> sas_token(IF form = "bare" THEN args.token
                                                         ELSE <<"?">> \o args.token))
  /\ UNCHANGED <<args, clientVars, sendVars, now>>

NextSas == \E form \in {"bare", "prefixed"} : SasToken(form)

SpecSas == InitSas /\ [][NextSas]_vars

\* C2: for a token that does not start with '?', sas_token of the token and
\* sas_token of '?' followed by the token return the same SASToken
\* credential, the pairs of the query string in their order; "a=1&b=2" and
\* "?a=1&b=2" both give [(a,1),(b,2)].
SasPrefixAgnostic ==
  ({"bare", "prefixed"} \subseteq DOMAIN rets /\ ~starts_with(args.token, "?"))
    => /\ rets["bare"] = rets["prefixed"]
       /\ rets["bare"].ok
       /\ rets["bare"].value.kind = "SASToken"
       /\ (args.token = SampleToken
             => rets["prefixed"].value.params = << <<(<<"a">>), (<<"1">>)>>, <<(<<"b">>), (<<"2">>)>> >>)

SasPrefixAgnosticWitness ==
  /\ {"bare", "prefixed"} \subseteq DOMAIN rets
  /\ args.token = SampleToken
  /\ rets["bare"] = Ok(SASToken(<< <<(<<"a">>), (<<"1">>)>>, <<(<<"b">>), (<<"2">>)>> >>))
  /\ rets["prefixed"] = rets["bare"]

\* --------------------------------------------------------- get_endpoint_uri
AccountAlphabet == {"a", "B", " "}

Accounts == SeqsUpTo(AccountAlphabet, MaxAccountLen) \ {<<>>}

OtherAccounts == SeqsUpTo(AccountAlphabet, 1) \ {<<>>}

BLOB == <<"b","l","o","b">>
TABLE == <<"t","a","b","l","e">>
QUEUE == <<"q","u","e","u","e">>
DFS == <<"d","f","s">>

EndpointTypes == {BLOB, TABLE, QUEUE, DFS}

EmulatorBlobUrl == <<"h","t","t","p",":","/","/","1","2","7",".","0",".","0",".","1",":","1","0","0","0","0">>
EmulatorQueueUrl == <<"h","t","t","p",":","/","/","1","2","7",".","0",".","0",".","1",":","1","0","0","0","1">>
EmulatorTableUrl == <<"h","t","t","p",":","/","/","1","2","7",".","0",".","0",".","1",":","1","0","0","0","2">>
EmulatorFilesystemUrl == <<"h","t","t","p",":","/","/","1","2","7",".","0",".","0",".","1",":","1","0","0","0","4">>

\* an endpoint with an upper-case host and no port
CustomUrl == <<"h","t","t","p","s",":","/","/","H",".","a","/","x","?","a","=","1">>
\* a URL whose scheme is not hierarchical
OpaqueUrl == <<"m","a","i","l","t","o",":","a">>
\* strings that are not URLs
NoSchemeUrl == <<"a"," ","b">>
NoHostUrl == <<"h","t","t","p","s",":","/","/">>
BadPortUrl == <<"h","t","t","p",":","/","/","a",":","x">>

EndpointOverrides == {EmulatorQueueUrl, CustomUrl, OpaqueUrl, NoSchemeUrl, NoHostUrl, BadPortUrl}

InitEndpoint ==
  /\ args \in [url : {Some(u) : u \in EndpointOverrides} \cup {None},
               account : Accounts, endpoint_type : EndpointTypes,
               other_account : OtherAccounts, other_endpoint_type : EndpointTypes]
  /\ rets = NoCalls
  /\ client = NoClient
  /\ ctor = NoCtor
  /\ now = 0
  /\ IdleSend

\* a call of get_endpoint_uri with the override and either of the two
\* (account, service) pairs
GetEndpointUri(which) ==
  /\ which \notin DOMAIN rets
  /\ rets' = rets @@ (which :>
        IF which = "first"
        THEN get_endpoint_uri(args.url, args.account, args.endpoint_type)
        ELSE get_endpoint_uri(args.url, args.other_account, args.other_endpoint_type))
  /\ UNCHANGED <<args, clientVars, sendVars, now>>

NextEndpoint == \E which \in {"first", "second"} : GetEndpointUri(which)

SpecEndpoint == InitEndpoint /\ [][NextEndpoint]_vars

HasSpace(s) == \E i \in 1..Len(s) : s[i] = " "

\* C3: with an override get_endpoint_uri returns the override parsed,
\* whatever the account and the service are; without one it returns the URL
\* https://{account}.{service}.core.windows.net; a string that does not
\* parse gives an error and no URL.
EndpointUriContract ==
  /\ ("first" \in DOMAIN rets /\ args.url # None)
       => /\ rets["first"] = Url_parse(args.url[1])
          /\ (args.url[1] \in {NoSchemeUrl, NoHostUrl, BadPortUrl} => ~rets["first"].ok)
          /\ (args.url[1] = EmulatorQueueUrl =>
                /\ rets["first"].ok
                /\ Url_to_string(rets["first"].value) = EmulatorQueueUrl \o <<"/">>)
          /\ ("second" \in DOMAIN rets => rets["second"] = rets["first"])
  /\ ("first" \in DOMAIN rets /\ args.url = None)
       => IF HasSpace(args.account)
          THEN rets["first"] = Err("DataConversion")
          ELSE /\ rets["first"].ok
               /\ rets["first"].value.scheme = <<"h","t","t","p","s">>
               /\ rets["first"].value.host =
                     Some(to_ascii_lowercase(args.account) \o <<".">> \o args.endpoint_type \o EndpointSuffix)
               /\ rets["first"].value.port = None
               /\ rets["first"].value.path = <<"/">>
               /\ rets["first"].value.query = None
               /\ rets["first"].value.fragment = None

\* an override and two different accounts and services: the same URL twice
EndpointUriWitness ==
  /\ {"first", "second"} \subseteq DOMAIN rets
  /\ args.url = Some(CustomUrl)
  /\ args.account # args.other_account
  /\ args.endpoint_type # args.other_endpoint_type
  /\ rets["first"].ok
  /\ rets["first"].value.host = Some(<<"h", ".", "a">>)
  /\ rets["second"] = rets["first"]

\* ------------------------------------------------- StorageClient operations
Keys == {<<"k", "1">>, <<"k", "2">>}
BearerTokens == {<<"t", "1">>, <<"t", "2">>}
TokenProviders == {"provider1", "provider2"}
TransportPolicies == {"mock_transport"}
OneParamToken == <<"?", "a", "=", "1">>
ClientSasTokens == {SampleToken, OneParamToken}

MockCredentials ==
  {Key(<<"a">>, k) : k \in Keys}
    \cup {SASToken(sas_token(t).value.params) : t \in ClientSasTokens}
    \cup {BearerToken(t) : t \in BearerTokens}
    \cup {TokenCredential(t) : t \in TokenProviders}
    \cup {Anonymous}

EmulatorUrls == {Url_parse(EmulatorBlobUrl).value, Url_parse(CustomUrl).value}

Opt(S) == {None} \cup {Some(v) : v \in S}

\* what ConnectionString::new returns: an error, or the fields it found
ConnectionStrings ==
  [account_name : Opt(Accounts),
   account_key : Opt({<<"k", "1">>}),
   sas : Opt(ClientSasTokens),
   blob_endpoint : Opt({OpaqueUrl, NoSchemeUrl}),
   table_endpoint : Opt({NoHostUrl}),
   queue_endpoint : Opt({EmulatorQueueUrl, BadPortUrl}),
   file_endpoint : Opt({CustomUrl})]

SasResources == {"Blob", "Queue"}
SasResourceTypes == {"Container", "Object"}
SasExpiries == {1, 2}
SasPermissions == {"r", "rw"}

InitClient ==
  /\ args = <<>>
  /\ rets = NoCalls
  /\ client = NoClient
  /\ ctor = NoCtor
  /\ now = 0
  /\ IdleSend

Construct(fn, arguments, result) ==
  /\ ctor = NoCtor
  /\ rets = NoCalls
  /\ ctor' = [fn |-> fn, args |-> arguments]
  /\ client' = result
  /\ UNCHANGED <<args, rets, sendVars, now>>

NewAccessKey ==
  \E account \in Accounts, key \in Keys :
    Construct("new_access_key", <<account, key>>, new_access_key(account, key))

NewEmulator ==
  \E blob \in EmulatorUrls, queue \in EmulatorUrls :
    LET table == Url_parse(EmulatorTableUrl).value
        filesystem == Url_parse(EmulatorFilesystemUrl).value
    IN Construct("new_emulator", <<blob, table, queue, filesystem>>,
                 new_emulator(blob, table, queue, filesystem))

NewEmulatorDefault ==
  Construct("new_emulator_default", <<>>, new_emulator_default)

NewEmulatorWithAccount ==
  \E blob \in EmulatorUrls, queue \in EmulatorUrls, account \in Accounts, key \in Keys :
    LET table == Url_parse(EmulatorTableUrl).value
        filesystem == Url_parse(EmulatorFilesystemUrl).value
    IN Construct("new_emulator_with_account", <<blob, table, queue, filesystem, account, key>>,
                 new_emulator_with_account(blob, table, queue, filesystem, account, key))

NewSasToken ==
  \E account \in Accounts, token \in ClientSasTokens :
    Construct("new_sas_token", <<account, token>>, new_sas_token(account, token))

NewBearerToken ==
  \E account \in Accounts, token \in BearerTokens :
    Construct("new_bearer_token", <<account, token>>, new_bearer_token(account, token))

NewTokenCredential ==
  \E account \in Accounts, provider \in TokenProviders :
    Construct("new_token_credential", <<account, provider>>,
              new_token_credential(account, provider))

NewConnectionString ==
  \E parsed \in {Err("ConnectionString")} \cup {Ok(cs) : cs \in ConnectionStrings} :
    Construct("new_connection_string", <<parsed>>, new_connection_string(parsed))

NewAnonymous ==
  \E account \in Accounts :
    Construct("new_anonymous", <<account>>, new_anonymous(account))

NewMockOf(accounts, credentialSet) ==
  \E account \in accounts, credentials \in credentialSet, transport \in TransportPolicies :
    Construct("new_mock", <<account, credentials, transport>>,
              new_mock(account, credentials, transport))

NewMock == NewMockOf(Accounts, MockCredentials)

\* StorageClient::shared_access_signature
SharedAccessSignature ==
  /\ client.ok
  /\ "shared_access_signature" \notin DOMAIN rets
  /\ \E resource \in SasResources, resource_type \in SasResourceTypes,
        expiry \in SasExpiries, permissions \in SasPermissions :
       rets' = rets @@ ("shared_access_signature" :>
         [resource |-> resource, resource_type |-> resource_type, expiry |-> expiry,
          permissions |-> permissions,
          result |-> shared_access_signature(client.value.storage_credentials, resource,
                                             resource_type, expiry, permissions)])
  /\ UNCHANGED <<args, clientVars, sendVars, now>>

SegmentTexts == {<<"c">>, <<".">>, <<".", ".">>, <<"a", "/", "b">>, <<>>}

SegmentLists == SeqsUpTo(SegmentTexts, MaxSegments)

SegmentUrls == {Url_parse(u).value : u \in {EmulatorBlobUrl, CustomUrl, OpaqueUrl}}

\* a call of the associated function url_with_segments
UrlWithSegments ==
  /\ ctor = NoCtor
  /\ rets = NoCalls
  /\ \E url \in SegmentUrls, new_segments \in SegmentLists :
       rets' = ("url_with_segments" :>
         [url |-> url, new_segments |-> new_segments,
          result |-> url_with_segments(url, new_segments)])
  /\ UNCHANGED <<args, clientVars, sendVars, now>>

BlobUrlWithSegments ==
  /\ client.ok
  /\ rets = NoCalls
  /\ \E new_segments \in SegmentLists :
       rets' = ("blob_url_with_segments" :>
         [url |-> client.value.blob_storage_url, new_segments |-> new_segments,
          result |-> blob_url_with_segments(client.value, new_segments)])
  /\ UNCHANGED <<args, clientVars, sendVars, now>>

QueueUrlWithSegments ==
  /\ client.ok
  /\ rets = NoCalls
  /\ \E new_segments \in SegmentLists :
       rets' = ("queue_url_with_segments" :>
         [url |-> client.value.queue_storage_url, new_segments |-> new_segments,
          result |-> queue_url_with_segments(client.value, new_segments)])
  /\ UNCHANGED <<args, clientVars, sendVars, now>>

NextClient ==
  \/ NewAccessKey
  \/ NewEmulator
  \/ NewEmulatorDefault
  \/ NewEmulatorWithAccount
  \/ NewSasToken
  \/ NewBearerToken
  \/ NewTokenCredential
  \/ NewConnectionString
  \/ NewAnonymous
  \/ NewMock
  \/ SharedAccessSignature

SpecClient == InitClient /\ [][NextClient]_vars

\* C1: shared_access_signature succeeds exactly when the credential is a
\* Key; the signature is then made of the credential's account and key and
\* of the resource, resource type, expiry and permissions of the call; any
\* other credential gives an error of kind Credential and no signature.
SasOnlyFromKey ==
  "shared_access_signature" \in DOMAIN rets =>
    LET call == rets["shared_access_signature"]
        credentials == client.value.storage_credentials
    IN /\ call.result.ok <=> credentials.kind = "Key"
       /\ credentials.kind = "Key" =>
            call.result.value = [account |-> credentials.account, key |-> credentials.key,
                                 resource |-> call.resource,
                                 resource_type |-> call.resource_type,
                                 expiry |-> call.expiry, permissions |-> call.permissions]
       /\ credentials.kind # "Key" => call.result = [ok |-> FALSE, err |-> "Credential"]

SasOnlyFromKeyWitness ==
  /\ "shared_access_signature" \in DOMAIN rets
  /\ client.ok
  /\ client.value.storage_credentials = Key(<<"a">>, <<"k", "2">>)
  /\ rets["shared_access_signature"].result.ok
  /\ rets["shared_access_signature"].result.value.key = <<"k", "2">>
  /\ rets["shared_access_signature"].result.value.expiry = 2

\* the host of the endpoint of a service derived from an account
DerivedHost(account, endpoint_type) ==
  Some(to_ascii_lowercase(account) \o <<".">> \o endpoint_type \o EndpointSuffix)

\* C4 as claimed: whatever constructor made the client, its secondary queue
\* URL is the URL of the account with "-secondary" appended.
QueueSecondaryAlwaysSuffixed ==
  client.ok =>
    client.value.queue_storage_secondary_url.host =
      DerivedHost(client.value.account \o SecondarySuffix, QUEUE)

\* the constructors that derive the queue endpoints from the account alone
DerivesQueueFromAccount ==
  \/ ctor.fn \in {"new_access_key", "new_sas_token", "new_bearer_token",
                  "new_token_credential", "new_anonymous", "new_mock"}
  \/ ctor.fn = "new_connection_string" /\ ctor.args[1].value.queue_endpoint = None

\* C4, amended: a client of a constructor that derives the queue endpoints
\* from the account has the queue URL of the account and, as secondary, the
\* queue URL of the account with "-secondary" appended; a client of an
\* emulator constructor, or of a connection string with a queue endpoint,
\* has the primary queue URL as its secondary.
QueueSecondarySuffixedWhenDerived ==
  client.ok =>
    IF DerivesQueueFromAccount
    THEN /\ client.value.queue_storage_url.host = DerivedHost(client.value.account, QUEUE)
         /\ client.value.queue_storage_secondary_url =
              [client.value.queue_storage_url EXCEPT
                 !.host = DerivedHost(client.value.account \o SecondarySuffix, QUEUE)]
    ELSE client.value.queue_storage_secondary_url = client.value.queue_storage_url

QueueSecondarySuffixedWitness ==
  /\ client.ok
  /\ ctor.fn = "new_sas_token"
  /\ client.value.account = <<"a", "B">>
  /\ Url_to_string(client.value.queue_storage_secondary_url) =
       <<"h","t","t","p","s",":","/","/","a","b">> \o SecondarySuffix \o <<".">> \o QUEUE
         \o EndpointSuffix \o <<"/">>

\* C10: a client made from a connection string with an account name and a
\* SAS holds the SASToken parsed from that SAS, with or without an account
\* key in the string; it holds a Key only when the string has an account
\* name and a key and no SAS.
ConnectionStringPrefersSas ==
  (ctor.fn = "new_connection_string" /\ client.ok) =>
    LET cs == ctor.args[1].value
        credentials == client.value.storage_credentials
    IN /\ cs.account_name # None
       /\ cs.sas # None =>
            /\ credentials.kind = "SASToken"
            /\ cs.sas = Some(SampleToken) =>
                 credentials.params = << <<(<<"a">>), (<<"1">>)>>, <<(<<"b">>), (<<"2">>)>> >>
            /\ cs.sas = Some(OneParamToken) =>
                 credentials.params = << <<(<<"a">>), (<<"1">>)>> >>
       /\ credentials.kind = "Key" =>
            /\ cs.sas = None
            /\ cs.account_key # None
            /\ credentials = Key(cs.account_name[1], cs.account_key[1])
       /\ credentials.kind \in {"SASToken", "Key"}

ConnectionStringPrefersSasWitness ==
  /\ ctor.fn = "new_connection_string"
  /\ client.ok
  /\ ctor.args[1].value.account_key # None
  /\ ctor.args[1].value.sas = Some(OneParamToken)
  /\ client.value.storage_credentials = SASToken(<< <<(<<"a">>), (<<"1">>)>> >>)

\* the constructors that derive every endpoint from the account, their
\* first argument
AccountConstructors ==
  {"new_access_key", "new_sas_token", "new_bearer_token", "new_token_credential",
   "new_anonymous", "new_mock"}

\* the text get_endpoint_uri parses for an endpoint
EndpointText(url, account, endpoint_type) ==
  IF url # None THEN url[1] ELSE EndpointString(account, endpoint_type)

\* an account whose derived endpoints are not all urls
BadAccount(account) ==
  \E a \in {account, account \o SecondarySuffix}, endpoint_type \in EndpointTypes :
    ~Url_parse(EndpointText(None, a, endpoint_type)).ok

\* a connection string with an endpoint, given or derived, that is not a url
BadEndpoints(cs) ==
  LET account == cs.account_name[1]
  IN \/ ~Url_parse(EndpointText(cs.blob_endpoint, account, BLOB)).ok
     \/ ~Url_parse(EndpointText(cs.table_endpoint, account, TABLE)).ok
     \/ ~Url_parse(EndpointText(cs.queue_endpoint, account, QUEUE)).ok
     \/ ~Url_parse(EndpointText(cs.queue_endpoint, account \o SecondarySuffix, QUEUE)).ok
     \/ ~Url_parse(EndpointText(cs.file_endpoint, account, DFS)).ok

EndpointFields ==
  {"blob_storage_url", "table_storage_url", "queue_storage_url",
   "queue_storage_secondary_url", "filesystem_url"}

\* a value a constructor returned to its caller that is an error
ErrorValue(result) == ~result.ok /\ result # Panic

\* C13: a constructor given an account whose derived endpoints are not all
\* urls, or a connection string with an endpoint that is not a url, returns
\* an error value; no constructor ends otherwise than by returning, and a
\* client that is returned has its five endpoints, all of them urls.
ConstructionErrorsAreValues ==
  /\ ctor.fn \in AccountConstructors /\ BadAccount(ctor.args[1]) => ErrorValue(client)
  /\ (/\ ctor.fn = "new_connection_string"
      /\ ctor.args[1].ok
      /\ ctor.args[1].value.account_name # None
      /\ BadEndpoints(ctor.args[1].value)) => ErrorValue(client)
  /\ ctor # NoCtor => client # Panic
  /\ client.ok =>
       \A f \in EndpointFields :
         \E text \in {Url_to_string(client.value[f])} : Url_parse(text) = Ok(client.value[f])

\* C14: new_connection_string returns an error, and no client, for a
\* connection string without an account name, or with neither an account
\* key nor a SAS; a client it returns is of a connection string with an
\* account name, holds that account, and its credential is a Key or a
\* SASToken.
ConnectionStringNeedsAccountAndSecret ==
  ctor.fn = "new_connection_string" =>
    LET parsed == ctor.args[1]
    IN /\ ~parsed.ok => client = parsed
       /\ parsed.ok /\ parsed.value.account_name = None => ErrorValue(client)
       /\ (/\ parsed.ok
           /\ parsed.value.account_key = None
           /\ parsed.value.sas = None) => ErrorValue(client)
       /\ client.ok =>
            /\ parsed.ok
            /\ parsed.value.account_name = Some(client.value.account)
            /\ parsed.value.account_key # None \/ parsed.value.sas # None
            /\ client.value.storage_credentials.kind \in {"Key", "SASToken"}

\* a connection string with an account name and endpoints that are urls,
\* but no key and no SAS, is refused
ConnectionStringNeedsAccountAndSecretWitness ==
  /\ ctor.fn = "new_connection_string"
  /\ ctor.args[1].ok
  /\ ctor.args[1].value.account_name = Some(<<"a">>)
  /\ ctor.args[1].value.account_key = None
  /\ ctor.args[1].value.sas = None
  /\ ~BadEndpoints(ctor.args[1].value)
  /\ client = Err("Other")

\* ------------------------------------------------------- url_with_segments
\* connection strings of one account whose blob, queue and file endpoints
\* are the account's or given
SegmentConnectionStrings ==
  [account_name : {Some(<<"a">>)},
   account_key : {Some(<<"k", "1">>)},
   sas : {None},
   blob_endpoint : Opt({OpaqueUrl, CustomUrl}),
   table_endpoint : {None},
   queue_endpoint : Opt({EmulatorQueueUrl}),
   file_endpoint : {None}]

NewConnectionStringForSegments ==
  \E cs \in SegmentConnectionStrings :
    Construct("new_connection_string", <<Ok(cs)>>, new_connection_string(Ok(cs)))

NextSegments ==
  \/ NewConnectionStringForSegments
  \/ UrlWithSegments
  \/ BlobUrlWithSegments
  \/ QueueUrlWithSegments

SpecSegments == InitClient /\ [][NextSegments]_vars

UrlSegmentCalls ==
  {rets[c] : c \in DOMAIN rets \cap
     {"url_with_segments", "blob_url_with_segments", "queue_url_with_segments"}}

\* the path with every one of the segments written after it, each behind a
\* '/'; the '/' of a root path is the one of the first segment
PathWithSegments(path, segments) ==
  IF segments = <<>> THEN path
  ELSE (IF path = <<"/">> THEN <<>> ELSE path)
         \o Flatten([i \in 1..Len(segments) |-> <<"/">> \o encode_segment(segments[i])])

\* C11 as stated: a url that cannot be a base gives an error and no url;
\* any other url gives the url with all the new segments appended in their
\* order and nothing else changed.
UrlSegmentsAllAppended ==
  \A call \in UrlSegmentCalls :
    IF call.url.cannot_be_a_base
    THEN ~call.result.ok
    ELSE /\ call.result.ok
         /\ call.result.value =
              [call.url EXCEPT !.path = PathWithSegments(call.url.path, call.new_segments)]

NotDotSegment(segment) == segment \notin DotSegments

\* C11: a url that cannot be a base gives an error of kind DataConversion
\* and no url; any other url gives a url that differs from it in the path
\* only, and when no new segment is empty the path is the one of the url
\* with the new segments other than "." and ".." appended in their order.
UrlSegmentsAppended ==
  \A call \in UrlSegmentCalls :
    IF call.url.cannot_be_a_base
    THEN call.result = Err("DataConversion")
    ELSE /\ call.result.ok
         /\ [call.result.value EXCEPT !.path = call.url.path] = call.url
         /\ (\A i \in 1..Len(call.new_segments) : call.new_segments[i] # <<>>)
              => call.result.value.path =
                   PathWithSegments(call.url.path,
                                    SelectSeq(call.new_segments, NotDotSegment))

\* the blob endpoint of a client cannot be a base and two segments are
\* refused
UrlSegmentsAppendedWitness ==
  /\ "blob_url_with_segments" \in DOMAIN rets
  /\ rets["blob_url_with_segments"].url.cannot_be_a_base
  /\ Len(rets["blob_url_with_segments"].new_segments) = 2
  /\ ~rets["blob_url_with_segments"].result.ok

\* ------------------------------------------------ new_pipeline_from_options
Timeouts == {"default", "short"}

ClientOptionsSet ==
  [retry : Opt(1..MaxBudget), timeout : Timeouts, transport : {"default"} \cup TransportPolicies]

InitPipeline ==
  /\ args \in [options : ClientOptionsSet, credentials : MockCredentials]
  /\ rets = NoCalls
  /\ client = NoClient
  /\ ctor = NoCtor
  /\ now = 0
  /\ IdleSend

NewPipelineFromOptions ==
  /\ "new_pipeline_from_options" \notin DOMAIN rets
  /\ rets' = rets @@ ("new_pipeline_from_options" :>
                        new_pipeline_from_options(args.options, args.credentials))
  /\ UNCHANGED <<args, clientVars, sendVars, now>>

NextPipeline == NewPipelineFromOptions

SpecPipeline == InitPipeline /\ [][NextPipeline]_vars

\* C5: a pipeline built by new_pipeline_from_options, whatever the options
\* and the credential, has no per-call policy, and its per-retry policies
\* are the timeout policy and then, last, the authorization policy that
\* holds the credential.
AuthorizationPolicyLast ==
  "new_pipeline_from_options" \in DOMAIN rets =>
    LET pipeline == rets["new_pipeline_from_options"]
        n == Len(pipeline.per_retry_policies)
    IN /\ pipeline.per_call_policies = <<>>
       /\ n = 2
       /\ pipeline.per_retry_policies[n].policy = "AuthorizationPolicy"
       /\ pipeline.per_retry_policies[n].credentials = Some(args.credentials)
       /\ \A i \in 1..(n - 1) :
            /\ pipeline.per_retry_policies[i].policy = "TimeoutPolicy"
            /\ pipeline.per_retry_policies[i].timeout = Some(args.options.timeout)

AuthorizationPolicyLastWitness ==
  /\ "new_pipeline_from_options" \in DOMAIN rets
  /\ args.options.timeout = "short"
  /\ args.options.retry = Some(2)
  /\ args.credentials.kind = "SASToken"
  /\ rets["new_pipeline_from_options"].per_retry_policies[2].credentials = Some(args.credentials)

\* --------------------------------------------------------- finalize_request
Methods == {<<"G", "E", "T">>, <<"P", "U", "T">>}

HeaderNames == {CONTENT_LENGTH, MS_DATE, VERSION, "x-ms-meta"}

CallerHeaderValues == {<<"9">>, to_rfc1123(0)}

CallerHeaders == UNION {[names -> CallerHeaderValues] : names \in SUBSET HeaderNames}

LongBody == [i \in 1..12 |-> "x"]

Bodies == SeqsUpTo({"x"}, MaxBodyLen) \cup {LongBody}

RequestUrls == {Url_parse(EmulatorBlobUrl).value, Url_parse(CustomUrl).value}

InitFinalize ==
  /\ args \in [url : RequestUrls, method : Methods, headers : CallerHeaders,
               request_body : Opt(Bodies)]
  /\ rets = NoCalls
  /\ client = NoClient
  /\ ctor = NoCtor
  /\ now = 0
  /\ IdleSend

\* time passes while no send is running, and while a send waits for the
\* transport
Tick ==
  /\ pc \in {"idle", "in_flight"}
  /\ now < MaxClock
  /\ now' = now + 1
  /\ UNCHANGED <<args, rets, clientVars, sendVars>>

\* a call of finalize_request
FinalizeRequest ==
  /\ "finalize_request" \notin DOMAIN rets
  /\ rets' = rets @@ ("finalize_request" :>
        [at |-> now,
         result |-> finalize_request(args.url, args.method, args.headers, args.request_body)])
  /\ UNCHANGED <<args, clientVars, sendVars, now>>

NextFinalize == Tick \/ FinalizeRequest

SpecFinalize == InitFinalize /\ [][NextFinalize]_vars

\* the seconds of a date in the RFC-1123 form, -1 if s is not such a date
Rfc1123Seconds(s) ==
  IF /\ Len(s) = 29
     /\ SubSeq(s, 1, 5) \in {<<d[1], d[2], d[3], ",", " ">> :
                               d \in {<<"M","o","n">>, <<"T","u","e">>, <<"W","e","d">>,
                                      <<"T","h","u">>, <<"F","r","i">>, <<"S","a","t">>,
                                      <<"S","u","n">>}}
     /\ s[6] \in Digits /\ s[7] \in Digits /\ s[8] = " "
     /\ s[12] = " " /\ \A i \in 13..16 : s[i] \in Digits
     /\ s[17] = " " /\ s[20] = ":" /\ s[23] = ":"
     /\ \A i \in {18, 19, 21, 22, 24, 25} : s[i] \in Digits
     /\ SubSeq(s, 26, 29) = <<" ", "G", "M", "T">>
  THEN DecimalValue(SubSeq(s, 24, 25))
  ELSE 0 - 1

\* C9: the request finalize_request returns has a content-length header
\* that is the length of the body ("0" without a body), a date header in
\* the RFC-1123 form and the version header "2019-12-12", whatever headers
\* of these names the caller gave; every other header of the caller is in
\* the request with its value.
FinalizeRequestHeaders ==
  "finalize_request" \in DOMAIN rets =>
    LET call == rets["finalize_request"]
        req == call.result.value
        length == IF args.request_body = None THEN 0 ELSE Len(args.request_body[1])
    IN /\ call.result.ok
       /\ DOMAIN req.headers = DOMAIN args.headers \cup {CONTENT_LENGTH, MS_DATE, VERSION}
       /\ DecimalValue(req.headers[CONTENT_LENGTH]) = length
       /\ Len(req.headers[CONTENT_LENGTH]) = (IF length < 10 THEN 1 ELSE 2)
       /\ args.request_body = None => req.headers[CONTENT_LENGTH] = <<"0">>
       /\ Rfc1123Seconds(req.headers[MS_DATE]) = call.at
       /\ req.headers[VERSION] = <<"2","0","1","9","-","1","2","-","1","2">>
       /\ \A h \in DOMAIN args.headers \ {CONTENT_LENGTH, MS_DATE, VERSION} :
            req.headers[h] = args.headers[h]
       /\ req.url = args.url
       /\ req.method = args.method
       /\ req.body = (IF args.request_body = None THEN <<>> ELSE args.request_body[1])

\* a caller that gave all three headers, and a body of twelve bytes
FinalizeRequestHeadersWitness ==
  /\ "finalize_request" \in DOMAIN rets
  /\ {CONTENT_LENGTH, MS_DATE, VERSION, "x-ms-meta"} \subseteq DOMAIN args.headers
  /\ args.headers[MS_DATE] = to_rfc1123(0)
  /\ args.request_body = Some(LongBody)
  /\ rets["finalize_request"].at = 2
  /\ rets["finalize_request"].result.value.headers[CONTENT_LENGTH] = <<"1", "2">>
  /\ rets["finalize_request"].result.value.headers[MS_DATE] = to_rfc1123(2)
  /\ rets["finalize_request"].result.value.headers["x-ms-meta"] = <<"9">>

\* ------------------------------------------------------ StorageClient::send
SendAccounts == {<<"a">>}

SendCredentials ==
  {Key(<<"a">>, <<"k", "1">>), SASToken(sas_token(OneParamToken).value.params),
   BearerToken(<<"t", "1">>), TokenCredential("provider1"), Anonymous}

ServiceTypes == {"Blob", "Queue"}

SendHeaders == {("x-ms-meta" :> <<"9">>)}

\* what a caller sends: the query pairs it puts on the url, and the body
SendTargets == {<<<<>>, None>>, <<<< <<<<"c">>, <<"3">>>> >>, Some(<<"x">>)>>}

\* what the pipeline executes, with the request and the context it has
Event(ev, n, req) ==
  [ev |-> ev, attempt |-> n, at |-> now, request |-> req, context |-> context]

\* the calls of send: the context the caller hands over, a new one or one
\* that a send to the table service has used, and the service type
SendCalls ==
  {[context |-> <<>>, service_type |-> "Queue"],
   [context |-> ("ServiceType" :> "Table"), service_type |-> "Blob"]}

\* the context of send with the service type the caller's context had kept
insert_service_type_KeepFirst(ctx, service_type) ==
  IF "ServiceType" \in DOMAIN ctx THEN ctx ELSE Context_insert(ctx, "ServiceType", service_type)

\* context.insert(service_type): the context the pipeline is given
insert_service_type(ctx, service_type) == Context_insert(ctx, "ServiceType", service_type)

NewMockForSend == NewMockOf(SendAccounts, SendCredentials)

\* StorageClient::finalize_request, for a request to the blob endpoint
BuildRequest ==
  /\ client.ok
  /\ pc = "idle"
  /\ request = None
  /\ \E headers \in SendHeaders, target \in SendTargets :
       request' = Some(finalize_request(append_pairs(client.value.blob_storage_url, target[1]),
                                        <<"P", "U", "T">>, headers, target[2]).value)
  /\ UNCHANGED <<args, rets, clientVars, pc, context, snapshot, idx, attempt, budget, trace,
                 outcome, now>>

\* StorageClient::send: the service type goes into the context and the
\* pipeline takes the context and the request
Send ==
  /\ client.ok
  /\ pc = "idle"
  /\ request # None
  /\ rets = NoCalls
  /\ \E call \in SendCalls :
       /\ context' = insert_service_type(call.context, call.service_type)
       /\ rets' = ("send" :> call)
  /\ \E b \in (IF client.value.pipeline.options.retry = None
                THEN 1..MaxBudget ELSE {client.value.pipeline.options.retry[1]}) :
       budget' = b
  /\ snapshot' = request
  /\ attempt' = 0
  /\ idx' = 1
  /\ trace' = <<>>
  /\ pc' = "per_call"
  /\ UNCHANGED <<args, clientVars, request, outcome, now>>

\* the per-call policies run, once each, in their order
RunPerCallPolicies ==
  /\ pc = "per_call"
  /\ LET policies == client.value.pipeline.per_call_policies
     IN trace' = trace \o [i \in 1..Len(policies) |-> Event(policies[i].policy, 0, request)]
  /\ pc' = "attempt"
  /\ UNCHANGED <<args, rets, clientVars, context, request, snapshot, idx, attempt, budget,
                 outcome, now>>

\* an attempt begins with the request restored
BeginAttempt ==
  /\ pc = "attempt"
  /\ attempt' = attempt + 1
  /\ request' = Some(restore_request(snapshot[1], now))
  /\ idx' = 1
  /\ trace' = Append(trace, Event("begin", attempt + 1, request'))
  /\ pc' = "per_retry"
  /\ UNCHANGED <<args, rets, clientVars, context, snapshot, budget, outcome, now>>

\* the next per-retry policy of the attempt runs on the request
RunPerRetryPolicy ==
  /\ pc = "per_retry"
  /\ idx <= Len(client.value.pipeline.per_retry_policies)
  /\ LET policy == client.value.pipeline.per_retry_policies[idx]
     IN /\ request' = Some(apply_policy(policy, request[1]))
        /\ trace' = Append(trace, Event(policy.policy, attempt, request'))
  /\ idx' = idx + 1
  /\ UNCHANGED <<args, rets, clientVars, pc, context, snapshot, attempt, budget, outcome, now>>

\* after the last per-retry policy the transport takes the request
InvokeTransport ==
  /\ pc = "per_retry"
  /\ idx > Len(client.value.pipeline.per_retry_policies)
  /\ trace' = Append(trace, Event("transport", attempt, request))
  /\ pc' = "in_flight"
  /\ UNCHANGED <<args, rets, clientVars, context, request, snapshot, idx, attempt, budget,
                 outcome, now>>

\* the transport returns; the attempt is retried, or the send returns
TransportReturns ==
  /\ pc = "in_flight"
  /\ \E result \in TransportResults :
       /\ trace' = Append(trace, Event(result, attempt, request))
       /\ IF should_retry(result, attempt, budget)
          THEN pc' = "attempt" /\ outcome' = outcome
          ELSE pc' = "done" /\ outcome' = Some(send_result(result, attempt))
  /\ UNCHANGED <<args, rets, clientVars, context, request, snapshot, idx, attempt, budget, now>>

\* time passes once the request is built: before it is sent, and while a
\* send waits for the transport
TickSend ==
  /\ request # None
  /\ Tick

\* send returns what the pipeline returned
SendReturns ==
  /\ pc = "done"
  /\ "result" \notin DOMAIN rets["send"]
  /\ rets' = ("send" :> ([result |-> outcome[1]] @@ rets["send"]))
  /\ UNCHANGED <<args, clientVars, sendVars, now>>

NextSend ==
  \/ NewMockForSend
  \/ BuildRequest
  \/ Send
  \/ RunPerCallPolicies
  \/ BeginAttempt
  \/ RunPerRetryPolicy
  \/ InvokeTransport
  \/ TransportReturns
  \/ SendReturns
  \/ TickSend

SpecSend == InitClient /\ [][NextSend]_vars

\* the results the transport has returned in the send, in order
TransportResultsSoFar ==
  LET returned == SelectSeq(trace, LAMBDA e : e.ev \in TransportResults)
  IN [i \in 1..Len(returned) |-> returned[i].ev]

TransportCalls == SelectSeq(trace, LAMBDA e : e.ev = "transport")

\* C6: a send whose transport fails transiently twice and then succeeds
\* returns success when the budget is 3 and the error of the exhausted
\* budget when it is 2; a send returns the first result that is not
\* retried, or the error of the exhausted budget, and the transport is
\* never called more times than the budget.
RetryOutcome ==
  LET results == TransportResultsSoFar
      n == Len(results)
  IN /\ pc # "idle" => attempt <= budget /\ Len(TransportCalls) <= budget
     /\ pc \notin {"idle", "done"} =>
          /\ outcome = None
          /\ \A i \in 1..n : results[i] \in RetryableResults
     /\ pc = "done" =>
          /\ n >= 1 /\ n = attempt
          /\ \A i \in 1..(n - 1) : results[i] \in RetryableResults
          /\ results[n] = "success" => outcome = Some(Ok([status |-> "ok", attempt |-> n]))
          /\ results[n] = "fatal" => outcome = Some([ok |-> FALSE, err |-> "AuthenticationFailure"])
          /\ results[n] \in RetryableResults =>
               /\ n = budget
               /\ outcome = Some([ok |-> FALSE, err |-> "RetryBudgetExhausted"])
          /\ (results = <<"transient", "transient", "success">>) =>
               budget >= 3 /\ outcome[1].ok
          /\ (budget = 2 /\ n = 2 /\ results[1] = "transient" /\ results[2] = "transient") =>
               outcome = Some([ok |-> FALSE, err |-> "RetryBudgetExhausted"])

RetryOutcomeWitness ==
  /\ pc = "done"
  /\ budget = 3
  /\ TransportResultsSoFar = <<"transient", "transient", "success">>
  /\ outcome = Some(Ok([status |-> "ok", attempt |-> 3]))

EventNames(events) == [i \in 1..Len(events) |-> events[i].ev]

EventsOfAttempt(n) == SelectSeq(trace, LAMBDA e : e.attempt = n)

IsPrefix(p, q) == Len(p) <= Len(q) /\ SubSeq(q, 1, Len(p)) = p

\* C7: in a send the per-call policies run once, before the first attempt;
\* in every attempt the per-retry policies run once each, the timeout
\* policy and then the authorization policy, before the transport is
\* called; an attempt begins only after the attempt before it has
\* returned, and the transport is called with the request the
\* authorization policy of that attempt left.
PoliciesOncePerAttemptInOrder ==
  /\ EventsOfAttempt(0) = <<>>
  /\ \A i \in 1..(Len(trace) - 1) : trace[i].attempt <= trace[i + 1].attempt
  /\ \A e \in {trace[i] : i \in 1..Len(trace)} : e.attempt \in 1..attempt
  /\ \A n \in 1..attempt :
       LET names == EventNames(EventsOfAttempt(n))
           policies == <<"begin", "TimeoutPolicy", "AuthorizationPolicy", "transport">>
       IN /\ \/ IsPrefix(names, policies)
             \/ /\ Len(names) = 5
                /\ SubSeq(names, 1, 4) = policies
                /\ names[5] \in TransportResults
          /\ n < attempt => Len(names) = 5 /\ names[5] \in RetryableResults
  /\ \A i \in 1..Len(trace) :
       trace[i].ev = "transport" =>
         /\ i > 1
         /\ trace[i - 1].ev = "AuthorizationPolicy"
         /\ trace[i - 1].attempt = trace[i].attempt
         /\ trace[i - 1].request = trace[i].request
         /\ client.value.storage_credentials.kind \in {"Key", "BearerToken", "TokenCredential"}
              => AUTHORIZATION \in DOMAIN trace[i].request[1].headers

PoliciesOncePerAttemptWitness ==
  /\ pc = "in_flight"
  /\ attempt = 2
  /\ client.value.storage_credentials.kind = "Key"
  /\ EventNames(trace) = <<"begin", "TimeoutPolicy", "AuthorizationPolicy", "transport",
                           "timeout",
                           "begin", "TimeoutPolicy", "AuthorizationPolicy", "transport">>

\* the event with which attempt n began
BeginOf(n) == CHOOSE e \in {trace[i] : i \in 1..Len(trace)} : e.ev = "begin" /\ e.attempt = n

\* C8: every attempt of a send starts from the request as it was before the
\* send signed it, with a date header generated when the attempt began; the
\* request the transport gets carries that date and, under a Key, the
\* signature computed over the request of that attempt.
FreshRequestPerAttempt ==
  \A i \in 1..Len(trace) :
    LET e == trace[i]
        credentials == client.value.storage_credentials
    IN /\ e.ev = "begin" =>
            /\ Rfc1123Seconds(e.request[1].headers[MS_DATE]) = e.at
            /\ [e.request[1] EXCEPT !.headers = snapshot[1].headers] = snapshot[1]
            /\ \A h \in DOMAIN snapshot[1].headers \ {MS_DATE} :
                 e.request[1].headers[h] = snapshot[1].headers[h]
            /\ DOMAIN e.request[1].headers = DOMAIN snapshot[1].headers
       /\ e.ev = "transport" =>
            /\ Rfc1123Seconds(e.request[1].headers[MS_DATE]) = BeginOf(e.attempt).at
            /\ credentials.kind = "Key" =>
                 e.request[1].headers[AUTHORIZATION] =
                   SharedKeyPrefix \o credentials.account \o <<":">>
                     \o Hmac(credentials.key, string_to_sign(BeginOf(e.attempt).request[1],
                                                             credentials.account))
            /\ credentials.kind = "SASToken" =>
                 e.request[1].url = append_pairs(snapshot[1].url, credentials.params)

\* a second attempt whose date is later than the date finalize_request set
FreshRequestPerAttemptWitness ==
  /\ pc = "in_flight"
  /\ attempt = 2
  /\ client.value.storage_credentials.kind = "Key"
  /\ Rfc1123Seconds(snapshot[1].headers[MS_DATE]) = 0
  /\ Rfc1123Seconds(request[1].headers[MS_DATE]) = 2
  /\ trace[Len(trace)].ev = "transport"
  /\ trace[4].request[1].headers[AUTHORIZATION] # request[1].headers[AUTHORIZATION]

\* the requests before and after the authorization policy, in every attempt
AuthorizationSteps ==
  {[before |-> trace[i - 1].request[1], after |-> trace[i].request[1]] :
     i \in {j \in 2..Len(trace) : trace[j].ev = "AuthorizationPolicy"}}

\* C12: what the authorization policy does to a request is decided by the
\* variant of the client's credential: under a Key the Authorization header
\* is set to the shared-key signature of the request as the policy found
\* it; under a SASToken the stored pairs are appended to the pairs of the
\* query and the headers stay; under a BearerToken, or a TokenCredential,
\* the Authorization header is set to "Bearer " and the token; under
\* Anonymous the request stays as it is.  Nothing else of the request
\* changes.
AuthorizationByVariant ==
  \A step \in AuthorizationSteps :
    LET credentials == client.value.storage_credentials
        before == step.before
        after == step.after
        with_authorization(value) ==
          /\ DOMAIN after.headers = DOMAIN before.headers \cup {AUTHORIZATION}
          /\ after.headers[AUTHORIZATION] = value
          /\ \A h \in DOMAIN before.headers \ {AUTHORIZATION} :
               after.headers[h] = before.headers[h]
          /\ [after EXCEPT !.headers = before.headers] = before
    IN CASE credentials.kind = "Key" ->
              with_authorization(SharedKeyPrefix \o credentials.account \o <<":">>
                \o Hmac(credentials.key, string_to_sign(before, credentials.account)))
         [] credentials.kind = "SASToken" ->
              /\ after.headers = before.headers
              /\ query_pairs(after.url) = query_pairs(before.url) \o credentials.params
              /\ [after EXCEPT !.url.query = before.url.query] = before
         [] credentials.kind = "BearerToken" ->
              with_authorization(BearerPrefix \o credentials.token)
         [] credentials.kind = "TokenCredential" ->
              with_authorization(BearerPrefix \o get_token(credentials.credential))
         [] credentials.kind = "Anonymous" -> after = before

\* under a SASToken the authorization policy has appended the stored pair
\* to the pair the caller's url had
AuthorizationByVariantWitness ==
  /\ pc = "per_retry"
  /\ client.value.storage_credentials.kind = "SASToken"
  /\ trace # <<>>
  /\ trace[Len(trace)].ev = "AuthorizationPolicy"
  /\ query_pairs(snapshot[1].url) = << <<<<"c">>, <<"3">>>> >>
  /\ query_pairs(request[1].url) = << <<<<"c">>, <<"3">>>>, <<<<"a">>, <<"1">>>> >>

PolicyEvents == {"TimeoutPolicy", "AuthorizationPolicy", "transport"}

\* C15: from the moment the pipeline has the call, its context holds the
\* service type the caller passed to send, whatever the caller's context
\* held, and nothing else of the caller's context is changed; every policy
\* and the transport, in every attempt, run with that context; what send
\* returns is what the pipeline returned.
ServiceTypeInContext ==
  "send" \in DOMAIN rets =>
    LET call == rets["send"]
    IN /\ pc # "idle"
       /\ context["ServiceType"] = call.service_type
       /\ DOMAIN context = DOMAIN call.context \cup {"ServiceType"}
       /\ \A t \in DOMAIN call.context \ {"ServiceType"} : context[t] = call.context[t]
       /\ \A i \in 1..Len(trace) :
            /\ trace[i].context = context
            /\ trace[i].ev \in PolicyEvents =>
                 trace[i].context["ServiceType"] = call.service_type
       /\ "result" \in DOMAIN call => pc = "done" /\ Some(call.result) = outcome

\* a send for the blob service with a context that held the table service:
\* two attempts have run and send has returned the pipeline's error
ServiceTypeInContextWitness ==
  /\ "send" \in DOMAIN rets
  /\ rets["send"].context = ("ServiceType" :> "Table")
  /\ rets["send"].service_type = "Blob"
  /\ attempt = 2
  /\ "result" \in DOMAIN rets["send"]
  /\ rets["send"].result = Err("RetryBudgetExhausted")
  /\ \A i \in 1..Len(trace) : trace[i].context["ServiceType"] = "Blob"

\* ------------------------------------------- tasks that share a client
\* Tasks hold a reference to one client and call its operations, each
\* operation of a task interleaved with those of the other; a send is the
\* send of the pipeline with one attempt, step by step.
Tasks == {1, 2}

IdleTask == [pc |-> "idle", ops |-> 0, context |-> <<>>, request |-> None, idx |-> 0,
             value |-> None]

Task(t) == IF t \in DOMAIN rets THEN rets[t] ELSE IdleTask

SetTask(t, task) == rets' = [u \in DOMAIN rets \cup {t} |-> IF u = t THEN task ELSE rets[u]]

Accessors ==
  {"blob_storage_url", "table_storage_url", "queue_storage_url",
   "queue_storage_secondary_url", "filesystem_url", "account", "storage_credentials"}

\* the accessors, shared_access_signature and blob_url_with_segments: what
\* they return is kept by the task
TaskReads(t) ==
  /\ client.ok
  /\ Task(t).pc = "idle"
  /\ Task(t).ops < MaxOps
  /\ \E op \in Accessors \cup {"shared_access_signature", "blob_url_with_segments"} :
       LET result ==
             CASE op = "shared_access_signature" ->
                    shared_access_signature(client.value.storage_credentials,
                                            "Blob", "Object", 1, "r")
               [] op = "blob_url_with_segments" ->
                    blob_url_with_segments(client.value, << <<"c">> >>)
               [] OTHER -> client.value[op]
       IN SetTask(t, [Task(t) EXCEPT !.ops = @ + 1,
                                     !.value = Some([op |-> op, result |-> result])])
  /\ UNCHANGED <<args, clientVars, sendVars, now>>

\* finalize_request and send: the task's request and context go to the
\* pipeline of the client
TaskSends(t) ==
  /\ client.ok
  /\ Task(t).pc = "idle"
  /\ Task(t).ops < MaxOps
  /\ \E service_type \in ServiceTypes, headers \in SendHeaders :
       SetTask(t, [pc |-> "per_retry", ops |-> Task(t).ops + 1,
                   context |-> insert_service_type(<<>>, service_type),
                   request |-> Some(finalize_request(client.value.blob_storage_url,
                                                     <<"P", "U", "T">>, headers, None).value),
                   idx |-> 1, value |-> None])
  /\ UNCHANGED <<args, clientVars, sendVars, now>>

\* the next per-retry policy of the client's pipeline runs on the task's
\* request
TaskRunsPolicy(t) ==
  /\ Task(t).pc = "per_retry"
  /\ Task(t).idx <= Len(client.value.pipeline.per_retry_policies)
  /\ LET policy == client.value.pipeline.per_retry_policies[Task(t).idx]
     IN SetTask(t, [Task(t) EXCEPT !.request = Some(apply_policy(policy, @[1])),
                                   !.idx = @ + 1])
  /\ UNCHANGED <<args, clientVars, sendVars, now>>

\* the transport returns and the send of the task returns its result
TaskSendReturns(t) ==
  /\ Task(t).pc = "per_retry"
  /\ Task(t).idx > Len(client.value.pipeline.per_retry_policies)
  /\ \E result \in {"success", "fatal"} :
       SetTask(t, [Task(t) EXCEPT !.pc = "idle",
                                  !.value = Some([op |-> "send",
                                                  result |-> send_result(result, 1)])])
  /\ UNCHANGED <<args, clientVars, sendVars, now>>

NewAccessKeyShared ==
  \E account \in Accounts :
    Construct("new_access_key", <<account, <<"k", "1">> >>,
              new_access_key(account, <<"k", "1">>))

NextShared ==
  \/ NewMockForSend
  \/ NewAccessKeyShared
  \/ NewEmulatorDefault
  \/ NewConnectionStringForSegments
  \/ \E t \in Tasks : TaskReads(t)
  \/ \E t \in Tasks : TaskSends(t)
  \/ \E t \in Tasks : TaskRunsPolicy(t)
  \/ \E t \in Tasks : TaskSendReturns(t)

SpecShared == InitClient /\ [][NextShared]_vars

\* the credentials the authorization policies of a client's pipeline hold
AuthorizationCredentials(c) ==
  LET policies == c.pipeline.per_call_policies \o c.pipeline.per_retry_policies
  IN {policies[i].credentials :
        i \in {j \in 1..Len(policies) : policies[j].policy = "AuthorizationPolicy"}}

\* C16: a step that leaves a client constructed leaves it with a pipeline
\* whose authorization policy holds the credential storage_credentials()
\* returns; and no step taken when the client is constructed, by any task
\* and in any interleaving, changes the client: its credential, account,
\* endpoints and pipeline stay what the constructor made them.
ClientNeverChanges ==
  [][/\ client'.ok =>
          AuthorizationCredentials(client'.value) = {Some(client'.value.storage_credentials)}
     /\ client.ok => client' = client]_vars

\* two sends of two tasks are under way on one client of a Key, one signed
\* and one not yet
ClientNeverChangesWitness ==
  /\ client.ok
  /\ client.value.storage_credentials.kind = "Key"
  /\ Task(1).pc = "per_retry" /\ Task(1).idx = 3
  /\ AUTHORIZATION \in DOMAIN Task(1).request[1].headers
  /\ Task(2).pc = "per_retry" /\ Task(2).idx = 1
  /\ Task(2).ops = 2

\* ------------------------------------------ Debug for StorageCredentials
DebugCredentials == MockCredentials \cup {Key(<<"B">>, <<"k", "1">>)}

InitDebug ==
  /\ args \in [first : DebugCredentials, second : DebugCredentials, alternate : BOOLEAN]
  /\ rets = NoCalls
  /\ client = NoClient
  /\ ctor = NoCtor
  /\ now = 0
  /\ IdleSend

\* a credential is formatted with {:?}, or with {:#?}
Fmt(which) ==
  /\ which \notin DOMAIN rets
  /\ rets' = rets @@ (which :> fmt(args[which], args.alternate))
  /\ UNCHANGED <<args, clientVars, sendVars, now>>

NextDebug == \E which \in {"first", "second"} : Fmt(which)

SpecDebug == InitDebug /\ [][NextDebug]_vars

Contains(s, part) ==
  \E i \in 1..(Len(s) - Len(part) + 1) : SubSeq(s, i, i + Len(part) - 1) = part

\* C17: two credentials of the same variant are rendered by Debug as the
\* same text, whatever their account, key, SAS pairs, token or token
\* provider; the text of a Key does not contain its key, and the text of a
\* BearerToken does not contain its token.
DebugDependsOnVariantOnly ==
  /\ DOMAIN rets = {"first", "second"} /\ args.first.kind = args.second.kind
       => rets["first"] = rets["second"]
  /\ \A which \in DOMAIN rets :
       /\ args[which].kind = "Key" => ~Contains(rets[which], args[which].key)
       /\ args[which].kind = "BearerToken" => ~Contains(rets[which], args[which].token)

\* two Key credentials of different accounts and keys are rendered alike
DebugDependsOnVariantOnlyWitness ==
  /\ DOMAIN rets = {"first", "second"}
  /\ args.first = Key(<<"a">>, <<"k", "2">>)
  /\ args.second = Key(<<"B">>, <<"k", "1">>)
  /\ ~args.alternate
  /\ rets["first"] = rets["second"]
  /\ Len(rets["first"]) = 40

====
